---- MODULE Spec2Model ----
(***************************************************************************)
(* The task submission / approval pipeline of the bot:                     *)
(*   - TaskService.pending_tasks, the in-memory registry of submissions    *)
(*     awaiting a decision (services/openproject_service.py);              *)
(*   - handle_approval, the coroutine run for every approve / reject       *)
(*     decision (cogs/task_commands.py), wrapped by error_handler          *)
(*     (utils/error_handler.py);                                           *)
(*   - the part of OpenProjectRepository that handle_approval reaches:     *)
(*     create_task and the cached get_projects.                            *)
(*                                                                         *)
(* Scheduling is asyncio: a coroutine runs without interruption from one   *)
(* await to the next.  Each action below is therefore "the awaited call of *)
(* coroutine c returns (or raises) and c runs up to its next await".       *)
(* Every awaited call to Discord or to the OpenProject API may raise.      *)
(***************************************************************************)
EXTENDS Integers, Sequences, FiniteSets, TLC

\* ---------------------------------------------------------------- bounds
MaxSubmits == 1      \* TaskDetailsModal.on_submit invocations
MaxTicks == 1        \* clock advances
MaxFaults == 2       \* awaited calls (Discord, OpenProject) that raise

\* ------------------------------------------------------ program constants
CACHE_DURATION == 3600

None == "<None>"
DefaultMotivo == "Nao especificado"
ApproverName == "aprovador"

\* The claims are about pairs of decisions: two handle_approval coroutines.
Calls == {"c1", "c2"}
TickStep == CACHE_DURATION
StartTime == CACHE_DURATION
MaxNow == StartTime + MaxTicks * TickStep

\* task_id = f"{interaction.user.id}_{interaction.id}": one string per interaction.
\* An id built from the requester alone: the same for every interaction.
TaskId_per_user(n) == "7"

TaskId(n) == ToString(n)
TaskIds == {TaskId(n) : n \in 1..MaxSubmits}

\* Inputs of the handlers.
\* The title field is required=True (modals.py:33): Discord delivers no empty title.
Titles == {"Tarefa"}
ProjectIds == {None, "1"}
\* reject_reason: the text of the modal's field, and what the signature also
\* admits: an empty text, or no argument at all.
Reasons == {"fora do escopo", "", None}

\* What GET /api/v3/projects may answer: elements with their active flag.
Element(i, a) == [id |-> i, active |-> a]
RemoteListings ==
    { <<>>,
      <<Element("1", TRUE)>>,
      <<Element("1", FALSE), Element("2", TRUE)>> }

VARIABLES
    pending_tasks,    \* TaskService.pending_tasks: task_id -> reference to a dict
    heap,             \* the task_details dict objects, by reference
    nextId,           \* the next interaction id (ids are never reused)
    approval_msgs,    \* task ids whose approve/reject buttons reached the approver
    projects_cache,   \* OpenProjectRepository._projects_cache
    cache_timestamp,  \* OpenProjectRepository._cache_timestamp
    now,              \* time.time()
    faults,           \* awaited calls that have raised so far
    call,             \* the handle_approval coroutines
    versions_cache,   \* OpenProjectRepository._versions_cache
    req,              \* the coroutines that read the project / version listings
    last,             \* the most recent call of a handler or registry method
    settings          \* OpenProjectRepository.base_url and api_key

vars == <<pending_tasks, heap, nextId, approval_msgs,
          projects_cache, cache_timestamp, now, faults, call,
          versions_cache, req, last, settings>>

\* State the approval pipeline never touches.
Aux == <<versions_cache, req, last, settings>>

IdleCall ==
    [ pc |-> "idle", task_id |-> None, approved |-> FALSE, reject_reason |-> None,
      task_details |-> None, solicitante |-> None, current_time |-> 0,
      created |-> "none", posted |-> FALSE, after_failed |-> FALSE,
      link |-> "none", motivo |-> None,
      req_sent |-> {}, apr_sent |-> {}, exc |-> "none" ]

\* The coroutines that read the listings (project selector, version selector,
\* the selector's refresh button).
Reqs == {"r1", "r2"}

IdleReq ==
    [ pc |-> "idle", op |-> None, project_id |-> None, current_time |-> 0,
      fetched |-> FALSE, result |-> None, cached_before |-> None,
      ts_before |-> 0 ]

NoCall == [op |-> None]

RepositoryInit ==
    /\ projects_cache = <<>>
    /\ cache_timestamp = 0
    /\ versions_cache = <<>>

\* OPENPROJECT_URL and OPENPROJECT_API_KEY as the environment gives them.
Configured == [base_url |-> "https://op.example", api_key |-> "key"]

\* Everything but the record of the last call and the settings.
QuietInit ==
    /\ versions_cache = <<>>
    /\ req = [r \in Reqs |-> IdleReq]
    /\ pending_tasks = <<>>
    /\ heap = <<>>
    /\ nextId = 1
    /\ approval_msgs = {}
    /\ projects_cache = <<>>
    /\ cache_timestamp = 0
    /\ now = StartTime
    /\ faults = 0
    /\ call = [c \in Calls |-> IdleCall]

Init ==
    /\ settings = Configured
    /\ versions_cache = <<>>
    /\ req = [r \in Reqs |-> IdleReq]
    /\ last = NoCall
    /\ pending_tasks = <<>>
    /\ heap = <<>>
    /\ nextId = 1
    /\ approval_msgs = {}
    /\ projects_cache = <<>>
    /\ cache_timestamp = 0
    /\ now = StartTime
    /\ faults = 0
    /\ call = [c \in Calls |-> IdleCall]

\* ------------------------------------------------------------ TaskService
add_pending_task(task_id, task_details) ==
    [k \in DOMAIN pending_tasks \cup {task_id} |->
        IF k = task_id THEN task_details ELSE pending_tasks[k]]

\* A lookup that still answers for an entry that was removed.
get_pending_task_stale(task_id) ==
    IF task_id \in DOMAIN heap THEN task_id ELSE None

get_pending_task(task_id) ==
    IF task_id \in DOMAIN pending_tasks THEN pending_tasks[task_id] ELSE None

remove_pending_task(task_id) ==
    IF task_id \in DOMAIN pending_tasks
    THEN [k \in DOMAIN pending_tasks \ {task_id} |-> pending_tasks[k]]
    ELSE pending_tasks


\* -------------------------------------------------- OpenProjectRepository
CacheFresh(current_time) ==
    /\ projects_cache # <<>>
    /\ current_time - cache_timestamp < CACHE_DURATION

\* project.get('active', True): an element without the flag counts as active.
IsActive_default_true(project) == "active" \notin DOMAIN project \/ project.active

\* project.get('active', False): an element without the flag is not active.
IsActive(project) == "active" \in DOMAIN project /\ project.active

ActiveProjects(listing) ==
    LET kept == SelectSeq(listing, IsActive)
    IN  [i \in 1..Len(kept) |-> kept[i].id]

\* The link create_task puts in its result: ui_link when the project is in
\* the list get_projects returned, api_link otherwise.
ResultLink(projects, project_id) ==
    IF \E i \in 1..Len(projects) : projects[i] = project_id THEN "ui" ELSE "api"

\* The truth value of a string, or of what .get() gives for a missing key.
Truthy(value) == value \notin {None, ""}

\* The link keys of the result, the fallback added without its test.
ResultKeys_both(projects, project_id) ==
    (IF \E i \in 1..Len(projects) : projects[i] = project_id
     THEN {"ui_link"} ELSE {}) \cup {"api_link"}

\* The link keys create_task puts in its result: ui_link inside the loop
\* over the projects, then api_link if "ui_link" not in result.
ResultKeys(projects, project_id) ==
    LET in_loop == IF \E i \in 1..Len(projects) : projects[i] = project_id
                   THEN {"ui_link"} ELSE {}
    IN  in_loop \cup (IF "ui_link" \notin in_loop THEN {"api_link"} ELSE {})

\* The checks create_task makes before it builds the payload, the title
\* left out.
ValidTask_project_only(task_data) == Truthy(task_data.project_id)

\* The checks create_task makes before it builds the payload.
ValidTask(task_data) ==
    /\ Truthy(task_data.project_id)
    /\ Truthy(task_data.nome_da_tarefa)

\* ------------------------------------------------------------- on_submit
\* TaskDetailsModal.on_submit from the project check on: the submission is
\* registered under a fresh id, then the approver is sent the message with
\* the approve / reject buttons (delivered or not).
SubmitTail(title, project_id, delivered) ==
    /\ nextId' = nextId + 1
    /\ IF project_id = None
       THEN /\ delivered
            /\ UNCHANGED <<pending_tasks, heap, approval_msgs, faults>>
       ELSE /\ heap' = [r \in DOMAIN heap \cup {TaskId(nextId)} |->
                          IF r = TaskId(nextId)
                          THEN [ nome_da_tarefa |-> title,
                                 project_id |-> project_id,
                                 aprovador_nome |-> None ]
                          ELSE heap[r]]
            /\ pending_tasks' = add_pending_task(TaskId(nextId), TaskId(nextId))
            /\ ~delivered => faults < MaxFaults
            /\ faults' = IF delivered THEN faults ELSE faults + 1
            /\ approval_msgs' = IF delivered THEN approval_msgs \cup {TaskId(nextId)}
                                ELSE approval_msgs
    /\ UNCHANGED <<projects_cache, cache_timestamp, now, call>>

on_submit(title, project_id, delivered) ==
    /\ nextId <= MaxSubmits
    /\ SubmitTail(title, project_id, delivered)
    /\ UNCHANGED Aux

Tick ==
    /\ now + TickStep <= MaxNow
    /\ now' = now + TickStep
    /\ UNCHANGED <<pending_tasks, heap, nextId, approval_msgs,
                   projects_cache, cache_timestamp, faults, call, Aux>>

\* -------------------------------------------------------- handle_approval
\* The reason passed on as given, with no placeholder.
Motivo_as_given(reject_reason) == reject_reason

Motivo(reject_reason) ==
    IF reject_reason \in {None, ""} THEN DefaultMotivo ELSE reject_reason

Goto(c, changes) == call' = [call EXCEPT ![c] = changes]

\* The awaited call returns (ok) or raises.
Await(ok) ==
    /\ ~ok => faults < MaxFaults
    /\ faults' = IF ok THEN faults ELSE faults + 1

\* An exception that leaves handle_approval: error_handler catches it and
\* awaits the generic followup message.
Raised(r) == [r EXCEPT !.pc = "wrapper", !.exc = r.pc]

Frame == UNCHANGED <<pending_tasks, heap, nextId, approval_msgs,
                     projects_cache, cache_timestamp, now, Aux>>

\* A decision arrives: the approve button calls handle_approval(i, task_id,
\* True), the reject modal handle_approval(i, task_id, False, reason).  The
\* coroutine runs up to its first await.
handle_approval(c, task_id, approved, reject_reason) ==
    /\ call[c].pc = "idle"
    /\ UNCHANGED faults
    /\ c = "c2" => call["c1"].pc # "idle"
    /\ task_id \in approval_msgs
    /\ Goto(c, [call[c] EXCEPT !.pc = "defer", !.task_id = task_id,
                               !.approved = approved,
                               !.reject_reason = reject_reason])
    /\ Frame

\* interaction.response.defer returns: the lookup.
Lookup(c) ==
    LET r == call[c]
        task_details == get_pending_task(r.task_id)
    IN  IF task_details = None
        THEN [r EXCEPT !.pc = "not_found_send"]
        ELSE [r EXCEPT !.pc = "fetch_user", !.task_details = task_details]

handle_approval_defer(c) ==
    /\ call[c].pc = "defer"
    /\ \E ok \in BOOLEAN :
         /\ Await(ok)
         /\ Goto(c, IF ok THEN Lookup(c) ELSE Raised(call[c]))
    /\ Frame

handle_approval_not_found(c) ==
    /\ call[c].pc = "not_found_send"
    /\ \E ok \in BOOLEAN :
         /\ Await(ok)
         /\ Goto(c, IF ok
                    THEN [call[c] EXCEPT !.pc = "done",
                                         !.apr_sent = @ \cup {"not_found"}]
                    ELSE Raised(call[c]))
    /\ Frame

\* fetch_user returns: the approve branch writes the approver's name into
\* the dict (the registry's own object) and sends the processing message;
\* the reject branch builds its embeds and notifies the requester.
handle_approval_fetch_user(c) ==
    LET r == call[c] IN
    /\ r.pc = "fetch_user"
    /\ \E ok \in BOOLEAN :
         /\ Await(ok)
         /\ IF ~ok
            THEN /\ Goto(c, [r EXCEPT !.pc = "fetch_error_send"])
                 /\ UNCHANGED heap
            ELSE IF r.approved
            THEN /\ heap' = [heap EXCEPT ![r.task_details].aprovador_nome = ApproverName]
                 /\ Goto(c, [r EXCEPT !.pc = "processing_send",
                                      !.solicitante = "solicitante"])
            ELSE /\ Goto(c, [r EXCEPT !.pc = "reject_send_req",
                                      !.solicitante = "solicitante",
                                      !.motivo = Motivo(r.reject_reason)])
                 /\ UNCHANGED heap
    /\ UNCHANGED <<pending_tasks, nextId, approval_msgs,
                   projects_cache, cache_timestamp, now, Aux>>

handle_approval_fetch_error(c) ==
    /\ call[c].pc = "fetch_error_send"
    /\ \E ok \in BOOLEAN :
         /\ Await(ok)
         /\ Goto(c, IF ok
                    THEN [call[c] EXCEPT !.pc = "done",
                                         !.apr_sent = @ \cup {"fetch_error"}]
                    ELSE Raised(call[c]))
    /\ Frame

\* The except branch of the approve path (line 321): the approved-but-not-
\* created embed is built and sent to the requester.
ExceptBranch(r) == [r EXCEPT !.pc = "error_send_req"]

\* task_service.create_task is called: the repository validates the dict and
\* issues POST /api/v3/work_packages, or raises before any request.
CallCreateTask(c, r) ==
    LET after == \E b \in Calls \ {c} :
                     /\ call[b].task_id = r.task_id
                     /\ call[b].created = "failed"
    IN  IF ValidTask(heap[r.task_details])
        THEN [r EXCEPT !.pc = "post", !.created = "calling", !.posted = TRUE,
                       !.after_failed = after]
        ELSE ExceptBranch([r EXCEPT !.created = "failed", !.after_failed = after])

\* followup.send(processing_embed) returns.
handle_approval_processing(c) ==
    LET r == call[c] IN
    /\ r.pc = "processing_send"
    /\ \E ok \in BOOLEAN :
         /\ Await(ok)
         /\ Goto(c, IF ok
                    THEN CallCreateTask(c, [r EXCEPT !.apr_sent = @ \cup {"processing"}])
                    ELSE ExceptBranch(r))
    /\ Frame

\* create_task returns its result to handle_approval, which builds the
\* success embeds and notifies the requester.
CreateTaskReturns(r, projects) ==
    [r EXCEPT !.pc = "success_send_req", !.created = "ok",
              !.link = ResultLink(projects, heap[r.task_details].project_id)]

\* The POST returns.  On success create_task calls get_projects for the
\* link: served from the cache when fresh, else GET /api/v3/projects.
handle_approval_post(c) ==
    LET r == call[c] IN
    /\ r.pc = "post"
    /\ \E ok \in BOOLEAN :
         /\ Await(ok)
         /\ Goto(c, IF ~ok
                    THEN ExceptBranch([r EXCEPT !.created = "failed"])
                    ELSE IF CacheFresh(now)
                    THEN CreateTaskReturns(r, projects_cache)
                    ELSE [r EXCEPT !.pc = "get_projects", !.current_time = now])
    /\ Frame

\* The GET of get_projects returns: the active projects are cached under the
\* time read before the request; a failure is re-raised by get_projects and
\* again by create_task.
handle_approval_get_projects(c) ==
    LET r == call[c] IN
    /\ r.pc = "get_projects"
    /\ \E ok \in BOOLEAN :
         /\ Await(ok)
         /\ IF ok
            THEN \E listing \in RemoteListings :
                    /\ projects_cache' = ActiveProjects(listing)
                    /\ cache_timestamp' = r.current_time
                    /\ Goto(c, CreateTaskReturns(r, ActiveProjects(listing)))
            ELSE /\ Goto(c, ExceptBranch([r EXCEPT !.created = "failed"]))
                 /\ UNCHANGED <<projects_cache, cache_timestamp>>
    /\ UNCHANGED <<pending_tasks, heap, nextId, approval_msgs, now, Aux>>

\* solicitante.send(success_embed) returns.
handle_approval_success_req(c) ==
    LET r == call[c] IN
    /\ r.pc = "success_send_req"
    /\ \E ok \in BOOLEAN :
         /\ Await(ok)
         /\ Goto(c, IF ok
                    THEN [r EXCEPT !.pc = "approve_edit",
                                   !.req_sent = @ \cup {"created"}]
                    ELSE ExceptBranch(r))
    /\ Frame

\* interaction.edit_original_response(approve_embed) returns.
handle_approval_approve_edit(c) ==
    LET r == call[c] IN
    /\ r.pc = "approve_edit"
    /\ \E ok \in BOOLEAN :
         /\ Await(ok)
         /\ Goto(c, IF ok
                    THEN [r EXCEPT !.pc = "feedback",
                                   !.apr_sent = @ \cup {"created"}]
                    ELSE ExceptBranch(r))
    /\ Frame

\* Lines 250-319: channel notification, asyncio.sleep(3), the feedback
\* message and its reactions, the discussion thread.  None of it touches the
\* registry; a failure outside the thread block reaches the except branch.
\* When it completes the entry is removed (line 390); the update of the
\* original message that follows cannot raise out of the handler.
handle_approval_feedback(c) ==
    LET r == call[c] IN
    /\ r.pc = "feedback"
    /\ \E ok \in BOOLEAN :
         /\ Await(ok)
         /\ IF ok
            THEN /\ pending_tasks' = remove_pending_task(r.task_id)
                 /\ Goto(c, [r EXCEPT !.pc = "done"])
            ELSE /\ Goto(c, ExceptBranch(r))
                 /\ UNCHANGED pending_tasks
    /\ UNCHANGED <<heap, nextId, approval_msgs, projects_cache, cache_timestamp, now, Aux>>

\* solicitante.send(error_embed) returns.
handle_approval_error_req(c) ==
    LET r == call[c] IN
    /\ r.pc = "error_send_req"
    /\ \E ok \in BOOLEAN :
         /\ Await(ok)
         /\ Goto(c, IF ok
                    THEN [r EXCEPT !.pc = "error_edit",
                                   !.req_sent = @ \cup {"not_created"}]
                    ELSE Raised(r))
    /\ Frame

\* interaction.edit_original_response(error_embed) returns; then line 390.
handle_approval_error_edit(c) ==
    LET r == call[c] IN
    /\ r.pc = "error_edit"
    /\ \E ok \in BOOLEAN :
         /\ Await(ok)
         /\ IF ok
            THEN /\ pending_tasks' = remove_pending_task(r.task_id)
                 /\ Goto(c, [r EXCEPT !.pc = "done",
                                      !.apr_sent = @ \cup {"not_created"}])
            ELSE /\ Goto(c, Raised(r))
                 /\ UNCHANGED pending_tasks
    /\ UNCHANGED <<heap, nextId, approval_msgs, projects_cache, cache_timestamp, now, Aux>>

\* solicitante.send(reject_embed) returns.
handle_approval_reject_req(c) ==
    LET r == call[c] IN
    /\ r.pc = "reject_send_req"
    /\ \E ok \in BOOLEAN :
         /\ Await(ok)
         /\ Goto(c, IF ok
                    THEN [r EXCEPT !.pc = "reject_send_apr",
                                   !.req_sent = @ \cup {"rejected"}]
                    ELSE Raised(r))
    /\ Frame

\* followup.send(approve_reject_embed) returns; then line 390.
handle_approval_reject_apr(c) ==
    LET r == call[c] IN
    /\ r.pc = "reject_send_apr"
    /\ \E ok \in BOOLEAN :
         /\ Await(ok)
         /\ IF ok
            THEN /\ pending_tasks' = remove_pending_task(r.task_id)
                 /\ Goto(c, [r EXCEPT !.pc = "done",
                                      !.apr_sent = @ \cup {"rejected"}])
            ELSE /\ Goto(c, Raised(r))
                 /\ UNCHANGED pending_tasks
    /\ UNCHANGED <<heap, nextId, approval_msgs, projects_cache, cache_timestamp, now, Aux>>

\* error_handler's wrapper: the generic followup message, delivered or not.
error_handler(c) ==
    LET r == call[c] IN
    /\ r.pc = "wrapper"
    /\ \E ok \in BOOLEAN :
         /\ Await(ok)
         /\ Goto(c, IF ok
                    THEN [r EXCEPT !.pc = "done", !.apr_sent = @ \cup {"generic"}]
                    ELSE [r EXCEPT !.pc = "done"])
    /\ Frame

Next ==
    \/ \E title \in Titles, project_id \in ProjectIds, delivered \in BOOLEAN :
          on_submit(title, project_id, delivered)
    \/ Tick
    \/ \E c \in Calls, task_id \in TaskIds :
          handle_approval(c, task_id, TRUE, None)
    \/ \E c \in Calls, task_id \in TaskIds, reject_reason \in Reasons :
          handle_approval(c, task_id, FALSE, reject_reason)
    \/ \E c \in Calls : handle_approval_defer(c)
    \/ \E c \in Calls : handle_approval_not_found(c)
    \/ \E c \in Calls : handle_approval_fetch_user(c)
    \/ \E c \in Calls : handle_approval_fetch_error(c)
    \/ \E c \in Calls : handle_approval_processing(c)
    \/ \E c \in Calls : handle_approval_post(c)
    \/ \E c \in Calls : handle_approval_get_projects(c)
    \/ \E c \in Calls : handle_approval_success_req(c)
    \/ \E c \in Calls : handle_approval_approve_edit(c)
    \/ \E c \in Calls : handle_approval_feedback(c)
    \/ \E c \in Calls : handle_approval_error_req(c)
    \/ \E c \in Calls : handle_approval_error_edit(c)
    \/ \E c \in Calls : handle_approval_reject_req(c)
    \/ \E c \in Calls : handle_approval_reject_apr(c)
    \/ \E c \in Calls : error_handler(c)

Spec == Init /\ [][Next]_vars

\* ============================================================ submit form
\* Texts of the form fields are sequences of characters, so that the checks
\* of on_submit and of utils/date_utils.py are computed on what was typed.
MaxForms == 2        \* TaskDetailsModal.on_submit invocations with a full form

DecimalChars == {"0", "1", "2", "3", "4", "5", "6", "7", "8", "9"}
\* str.isdigit() also accepts digits that are not decimal, e.g. U+00B2.
SuperscriptTwo == "sup2"
IsDigitChars == DecimalChars \cup {SuperscriptTwo}

DigitVal(ch) ==
    CASE ch = "0" -> 0 [] ch = "1" -> 1 [] ch = "2" -> 2 [] ch = "3" -> 3
      [] ch = "4" -> 4 [] ch = "5" -> 5 [] ch = "6" -> 6 [] ch = "7" -> 7
      [] ch = "8" -> 8 [] ch = "9" -> 9

\* text.replace('.', '', 1)
RECURSIVE RemoveFirstDot(_)
RemoveFirstDot(text) ==
    IF text = <<>> THEN <<>>
    ELSE IF Head(text) = "." THEN Tail(text)
    ELSE <<Head(text)>> \o RemoveFirstDot(Tail(text))

\* text.isdigit()
IsDigit(text) ==
    /\ text # <<>>
    /\ \A i \in 1..Len(text) : text[i] \in IsDigitChars

\* float(text) returns a number (format_duration calls it on the estimate).
FloatParses(text) ==
    /\ \A i \in 1..Len(text) : text[i] \in DecimalChars \cup {"."}
    /\ \E i \in 1..Len(text) : text[i] \in DecimalChars
    /\ Cardinality({i \in 1..Len(text) : text[i] = "."}) <= 1

\* re.match(r'^\d{2}/\d{2}/\d{4}$', date_str): $ matches at the end of the
\* text and also just before a newline that ends it.
MatchesDateFormat(text) ==
    /\ Len(text) = 10 \/ (Len(text) = 11 /\ text[11] = "\n")
    /\ text[3] = "/" /\ text[6] = "/"
    /\ \A i \in {1, 2, 4, 5, 7, 8, 9, 10} : text[i] \in DecimalChars

Day(text) == 10 * DigitVal(text[1]) + DigitVal(text[2])
Month(text) == 10 * DigitVal(text[4]) + DigitVal(text[5])
Year(text) == 1000 * DigitVal(text[7]) + 100 * DigitVal(text[8])
                + 10 * DigitVal(text[9]) + DigitVal(text[10])

IsLeap(y) == (y % 4 = 0 /\ y % 100 # 0) \/ y % 400 = 0

DaysIn(m, y) ==
    IF m = 2 THEN (IF IsLeap(y) THEN 29 ELSE 28)
    ELSE IF m \in {4, 6, 9, 11} THEN 30 ELSE 31

\* datetime.datetime(year, month, day) does not raise.
RealDate(text) ==
    /\ Year(text) >= 1
    /\ Month(text) \in 1..12
    /\ Day(text) \in 1..DaysIn(Month(text), Year(text))

validate_date(date_str) ==
    IF date_str = <<>> THEN TRUE
    ELSE IF ~MatchesDateFormat(date_str) THEN FALSE
    ELSE RealDate(date_str)

\* The number a run of decimal digits stands for.
RECURSIVE DigitsValue(_)
DigitsValue(text) ==
    IF text = <<>> THEN 0
    ELSE 10 * DigitsValue(SubSeq(text, 1, Len(text) - 1)) + DigitVal(text[Len(text)])

\* text.split(sep)
RECURSIVE Split(_, _)
Split(text, sep) ==
    IF \A i \in 1..Len(text) : text[i] # sep THEN <<text>>
    ELSE LET i == CHOOSE i \in 1..Len(text) :
                    text[i] = sep /\ \A j \in 1..(i - 1) : text[j] # sep
         IN  <<SubSeq(text, 1, i - 1)>> \o Split(SubSeq(text, i + 1, Len(text)), sep)

\* int(text) first drops the white space around the number.
Whitespace == {" ", "\n"}

RECURSIVE Strip(_)
Strip(text) ==
    IF text = <<>> THEN <<>>
    ELSE IF Head(text) \in Whitespace THEN Strip(Tail(text))
    ELSE IF text[Len(text)] \in Whitespace THEN Strip(SubSeq(text, 1, Len(text) - 1))
    ELSE text

Unsigned(text) ==
    IF Strip(text) # <<>> /\ Head(Strip(text)) \in {"+", "-"}
    THEN Tail(Strip(text)) ELSE Strip(text)

\* int(text) returns a number: white space, a sign, decimal digits.
IntParses(text) ==
    /\ Unsigned(text) # <<>>
    /\ \A i \in 1..Len(Unsigned(text)) : Unsigned(text)[i] \in DecimalChars

IntValue(text) ==
    IF Head(Strip(text)) = "-"
    THEN 0 - DigitsValue(Unsigned(text)) ELSE DigitsValue(Unsigned(text))

\* map(int, text.split('/')) unpacked into day, month, year and handed to
\* datetime.datetime: both succeed.
DateParses(text) ==
    LET parts == Split(text, "/") IN
    /\ Len(parts) = 3
    /\ \A i \in 1..3 : IntParses(parts[i])
    /\ IntValue(parts[3]) \in 1..9999
    /\ IntValue(parts[2]) \in 1..12
    /\ IntValue(parts[1]) \in 1..DaysIn(IntValue(parts[2]), IntValue(parts[3]))

DateKey(text) ==
    LET parts == Split(text, "/") IN
    10000 * IntValue(parts[3]) + 100 * IntValue(parts[2]) + IntValue(parts[1])

OrderMessage == "A data de termino nao pode ser anterior a data de inicio."
FormatMessage == "Formato de data invalido. Use DD/MM/AAAA."

\* if end < start, with <= in its place.
Precedes_or_equal(end_key, start_key) == end_key <= start_key

\* if end < start
Precedes(end_key, start_key) == end_key < start_key

\* compare_dates(start, end): the pair it returns.
compare_dates(start_date, end_date) ==
    IF start_date = <<>> \/ end_date = <<>> THEN [ok |-> TRUE, message |-> ""]
    ELSE IF ~(DateParses(start_date) /\ DateParses(end_date))
    THEN [ok |-> FALSE, message |-> FormatMessage]
    ELSE IF Precedes(DateKey(end_date), DateKey(start_date))
    THEN [ok |-> FALSE, message |-> OrderMessage]
    ELSE [ok |-> TRUE, message |-> ""]

Chars(a, b, c) == <<a[1], a[2], "/", b[1], b[2], "/", c[1], c[2], c[3], c[4]>>

FormTitles == {"", "Tarefa"}
Estimates ==
    { <<>>, <<"2", ".", "5">>, <<"a", "b">>, <<SuperscriptTwo>> }
Dates ==
    { <<>>,
      Chars(<<"1", "5">>, <<"0", "5">>, <<"2", "0", "2", "5">>),
      Chars(<<"1", "4">>, <<"0", "5">>, <<"2", "0", "2", "5">>),
      Chars(<<"3", "1">>, <<"0", "2">>, <<"2", "0", "2", "5">>) }

Forms ==
    [ task_name : FormTitles, task_estimate : Estimates,
      start_date : Dates, due_date : Dates, project_id : ProjectIds ]

\* The checks of on_submit in the order the handler makes them (lines 80-159):
\* the first one that fails is reported and the handler returns.
Validation(form) ==
    IF form.task_estimate # <<>> /\ ~IsDigit(RemoveFirstDot(form.task_estimate))
    THEN "estimate"
    ELSE IF ~validate_date(form.start_date) THEN "start_date"
    ELSE IF ~validate_date(form.due_date) THEN "due_date"
    ELSE IF ~compare_dates(form.start_date, form.due_date).ok THEN "dates"
    ELSE IF form.project_id = None THEN "project"
    ELSE "ok"

\* TaskDetailsModal.on_submit with the whole form: the checks, then the
\* registration and the message to the approver.
TaskDetailsModal_on_submit(form, delivered) ==
    /\ nextId <= MaxForms
    /\ last' = [ op |-> "on_submit", form |-> form, task_id |-> TaskId(nextId),
                 outcome |-> Validation(form), delivered |-> delivered,
                 before |-> pending_tasks, sent_before |-> approval_msgs ]
    /\ IF Validation(form) # "ok"
       THEN /\ delivered
            /\ nextId' = nextId + 1
            /\ UNCHANGED <<pending_tasks, heap, approval_msgs, faults,
                           projects_cache, cache_timestamp, now, call>>
       ELSE SubmitTail(form.task_name, form.project_id, delivered)
    /\ UNCHANGED <<versions_cache, req, settings>>

SubmitNext ==
    \E form \in Forms, delivered \in BOOLEAN :
        TaskDetailsModal_on_submit(form, delivered)

SubmitSpec == Init /\ [][SubmitNext]_vars

\* =============================================================== registry
\* TaskService's three registry methods called directly, with any id and any
\* submission, in any order.
RegistryIds == {"7_1", "7_2", "8_3"}
Submissions == {"s1", "s2"}

\* del d[k] raises KeyError when k is not a key.
DelRaises(d, k) == k \notin DOMAIN d

\* remove_pending_task raises: its del is executed and raises.
RemoveRaises_unguarded(task_id) == DelRaises(pending_tasks, task_id)

RemoveRaises(task_id) ==
    /\ task_id \in DOMAIN pending_tasks
    /\ DelRaises(pending_tasks, task_id)

RegistryFrame ==
    UNCHANGED <<heap, nextId, approval_msgs, projects_cache, cache_timestamp,
                now, faults, call, versions_cache, req, settings>>

TaskService_add_pending_task(task_id, task_details) ==
    /\ pending_tasks' = add_pending_task(task_id, task_details)
    /\ last' = [ op |-> "add", task_id |-> task_id, value |-> task_details,
                 result |-> None, raised |-> FALSE, before |-> pending_tasks ]
    /\ RegistryFrame

TaskService_get_pending_task(task_id) ==
    /\ last' = [ op |-> "get", task_id |-> task_id, value |-> None,
                 result |-> get_pending_task(task_id), raised |-> FALSE,
                 before |-> pending_tasks ]
    /\ UNCHANGED pending_tasks
    /\ RegistryFrame

TaskService_remove_pending_task(task_id) ==
    /\ pending_tasks' = IF RemoveRaises(task_id) THEN pending_tasks
                        ELSE remove_pending_task(task_id)
    /\ last' = [ op |-> "remove", task_id |-> task_id, value |-> None,
                 result |-> None, raised |-> RemoveRaises(task_id),
                 before |-> pending_tasks ]
    /\ RegistryFrame

RegistryNext ==
    \/ \E task_id \in RegistryIds, task_details \in Submissions :
          TaskService_add_pending_task(task_id, task_details)
    \/ \E task_id \in RegistryIds : TaskService_get_pending_task(task_id)
    \/ \E task_id \in RegistryIds : TaskService_remove_pending_task(task_id)

RegistrySpec == Init /\ [][RegistryNext]_vars

\* ============================================================== lifecycle
\* Several submissions, each decided while others arrive: the pipeline of
\* Spec with more submits and a clock that stands still.
MaxLifecycleSubmits == 2

LifecycleIds == {TaskId(n) : n \in 1..MaxLifecycleSubmits}

on_submit_next(title, project_id, delivered) ==
    /\ nextId <= MaxLifecycleSubmits
    /\ SubmitTail(title, project_id, delivered)
    /\ UNCHANGED Aux

LifecycleNext ==
    \/ \E title \in Titles, project_id \in ProjectIds, delivered \in BOOLEAN :
          on_submit_next(title, project_id, delivered)
    \/ \E c \in Calls, task_id \in LifecycleIds :
          handle_approval(c, task_id, TRUE, None)
    \/ \E c \in Calls, task_id \in LifecycleIds, reject_reason \in Reasons :
          handle_approval(c, task_id, FALSE, reject_reason)
    \/ \E c \in Calls : handle_approval_defer(c)
    \/ \E c \in Calls : handle_approval_not_found(c)
    \/ \E c \in Calls : handle_approval_fetch_user(c)
    \/ \E c \in Calls : handle_approval_fetch_error(c)
    \/ \E c \in Calls : handle_approval_processing(c)
    \/ \E c \in Calls : handle_approval_post(c)
    \/ \E c \in Calls : handle_approval_get_projects(c)
    \/ \E c \in Calls : handle_approval_success_req(c)
    \/ \E c \in Calls : handle_approval_approve_edit(c)
    \/ \E c \in Calls : handle_approval_feedback(c)
    \/ \E c \in Calls : handle_approval_error_req(c)
    \/ \E c \in Calls : handle_approval_error_edit(c)
    \/ \E c \in Calls : handle_approval_reject_req(c)
    \/ \E c \in Calls : handle_approval_reject_apr(c)
    \/ \E c \in Calls : error_handler(c)

LifecycleSpec == Init /\ [][LifecycleNext]_vars

\* ================================================================= caches
\* get_projects and get_project_versions called by the selectors, and the
\* selector's refresh button.  A call that finds its cache entry fresh
\* returns without an await; otherwise it awaits the GET and another
\* coroutine may run before the response.
MaxCacheTicks == 2

HalfWindow == CACHE_DURATION \div 2
CacheMaxNow == StartTime + MaxCacheTicks * HalfWindow

OpenProjectError == "OpenProjectError"
VersionProjects == {"1", "2"}
RemoteVersions == { <<>>, <<"v1">> }

\* What a failed request gives the caller: the cached list.
FailureResult_stale(cached) == cached

\* What a failed request gives the caller: the except clause raises.
FailureResult(cached) == OpenProjectError

\* One key for every project.
cache_key_shared(project_id) == "versions"

\* cache_key = f"project_{project_id}_versions"
cache_key(project_id) == project_id

VersionsCached(project_id) == cache_key(project_id) \in DOMAIN versions_cache

\* self._versions_cache[cache_key].get('timestamp', 0)
VersionsTimestamp(project_id) ==
    IF VersionsCached(project_id)
    THEN versions_cache[cache_key(project_id)].timestamp ELSE 0

VersionsList(project_id) ==
    IF VersionsCached(project_id)
    THEN versions_cache[cache_key(project_id)].versions ELSE None

VersionsFresh(project_id, current_time) ==
    /\ VersionsCached(project_id)
    /\ current_time - VersionsTimestamp(project_id) < CACHE_DURATION

CacheFrame ==
    UNCHANGED <<pending_tasks, heap, nextId, approval_msgs, call, last, settings>>

CacheTick ==
    /\ now + HalfWindow <= CacheMaxNow
    /\ now' = now + HalfWindow
    /\ UNCHANGED <<projects_cache, cache_timestamp, versions_cache, req, faults>>
    /\ CacheFrame

\* get_projects up to its return or its await.
GetProjectsCall(r, op) ==
    LET base == [ IdleReq EXCEPT !.op = op, !.current_time = now,
                                 !.cached_before = projects_cache,
                                 !.ts_before = cache_timestamp ]
    IN  IF CacheFresh(now)
        THEN [base EXCEPT !.pc = "returned", !.result = projects_cache]
        ELSE [base EXCEPT !.pc = "fetching", !.fetched = TRUE]

get_projects(r) ==
    /\ req[r].pc = "idle"
    /\ req' = [req EXCEPT ![r] = GetProjectsCall(r, "get_projects")]
    /\ UNCHANGED <<projects_cache, cache_timestamp, versions_cache, now, faults>>
    /\ CacheFrame

\* ProjectSelectView.refresh_projects: the loading message, then
\* task_service.get_projects().
refresh_projects(r) ==
    /\ req[r].pc = "idle"
    /\ req' = [req EXCEPT ![r] = GetProjectsCall(r, "refresh_projects")]
    /\ UNCHANGED <<projects_cache, cache_timestamp, versions_cache, now, faults>>
    /\ CacheFrame

\* The GET /api/v3/projects of get_projects returns or fails.
get_projects_response(r) ==
    /\ req[r].pc = "fetching"
    /\ req[r].op \in {"get_projects", "refresh_projects"}
    /\ \E ok \in BOOLEAN :
         /\ Await(ok)
         /\ IF ok
            THEN \E listing \in RemoteListings :
                    /\ projects_cache' = ActiveProjects(listing)
                    /\ cache_timestamp' = req[r].current_time
                    /\ req' = [req EXCEPT ![r].pc = "returned",
                                          ![r].result = ActiveProjects(listing)]
            ELSE /\ req' = [req EXCEPT ![r].pc = "raised",
                                       ![r].result = FailureResult(projects_cache)]
                 /\ UNCHANGED <<projects_cache, cache_timestamp>>
    /\ UNCHANGED <<versions_cache, now>>
    /\ CacheFrame

get_project_versions(r, project_id) ==
    /\ req[r].pc = "idle"
    /\ LET base == [ IdleReq EXCEPT !.op = "get_project_versions",
                                    !.project_id = project_id,
                                    !.current_time = now,
                                    !.cached_before = VersionsList(project_id),
                                    !.ts_before = VersionsTimestamp(project_id) ]
       IN  req' = [req EXCEPT ![r] =
                     IF VersionsFresh(project_id, now)
                     THEN [base EXCEPT !.pc = "returned",
                                       !.result = VersionsList(project_id)]
                     ELSE [base EXCEPT !.pc = "fetching", !.fetched = TRUE]]
    /\ UNCHANGED <<projects_cache, cache_timestamp, versions_cache, now, faults>>
    /\ CacheFrame

\* The GET /api/v3/projects/{id}/versions returns or fails.
get_project_versions_response(r) ==
    /\ req[r].pc = "fetching"
    /\ req[r].op = "get_project_versions"
    /\ \E ok \in BOOLEAN :
         /\ Await(ok)
         /\ IF ok
            THEN \E versions \in RemoteVersions :
                    /\ versions_cache' =
                         [k \in DOMAIN versions_cache \cup {cache_key(req[r].project_id)} |->
                            IF k = cache_key(req[r].project_id)
                            THEN [ versions |-> versions,
                                   timestamp |-> req[r].current_time ]
                            ELSE versions_cache[k]]
                    /\ req' = [req EXCEPT ![r].pc = "returned",
                                          ![r].result = versions]
            ELSE /\ req' = [req EXCEPT ![r].pc = "raised",
                                       ![r].result =
                                          FailureResult(VersionsList(req[r].project_id))]
                 /\ UNCHANGED versions_cache
    /\ UNCHANGED <<projects_cache, cache_timestamp, now>>
    /\ CacheFrame

\* The caller has its answer; the next call may use the slot.
Returned(r) ==
    /\ req[r].pc \in {"returned", "raised"}
    /\ req' = [req EXCEPT ![r] = IdleReq]
    /\ UNCHANGED <<projects_cache, cache_timestamp, versions_cache, now, faults>>
    /\ CacheFrame

\* One caller at a time: each call returns before the next is made.
Sequential == {"r1"}

CacheNext ==
    \/ CacheTick
    \/ \E r \in Sequential : get_projects(r)
    \/ \E r \in Sequential : refresh_projects(r)
    \/ \E r \in Sequential : get_projects_response(r)
    \/ \E r \in Sequential, project_id \in VersionProjects :
          get_project_versions(r, project_id)
    \/ \E r \in Sequential : get_project_versions_response(r)
    \/ \E r \in Sequential : Returned(r)

CacheSpec == Init /\ [][CacheNext]_vars

\* Two callers at once, each making one call.
ConcurrentNext ==
    \/ CacheTick
    \/ \E r \in Reqs : get_projects(r)
    \/ \E r \in Reqs : get_projects_response(r)
    \/ \E r \in Reqs, project_id \in VersionProjects :
          get_project_versions(r, project_id)
    \/ \E r \in Reqs : get_project_versions_response(r)

ConcurrentSpec == Init /\ [][ConcurrentNext]_vars

\* ========================================================== remote client
\* _make_request and the three repository methods that call it, one call at
\* a time, under any settings and any behaviour of the network.

\* What the environment may hold for OPENPROJECT_URL / OPENPROJECT_API_KEY.
\* base_url is stored with its trailing slashes stripped, "" when unset.
BaseUrls == {"", "https://op.example"}
ApiKeys == {None, "", "key"}
Settings == [base_url : BaseUrls, api_key : ApiKeys]

\* Exceptions the request can raise, with the classes they derive from.
\* A timeout is asyncio.TimeoutError (total timeout) or an aiohttp timeout
\* class derived from ClientError (connect / read timeout), depending on
\* which limit of the library's default ClientTimeout expires.
ExceptionBases ==
    [ ClientConnectorError |-> {"ClientConnectorError", "ClientError", "Exception"},
      ServerTimeoutError   |-> {"ServerTimeoutError", "ClientError", "TimeoutError", "Exception"},
      ContentTypeError     |-> {"ContentTypeError", "ClientError", "Exception"},
      TimeoutError         |-> {"TimeoutError", "Exception"},
      JSONDecodeError      |-> {"JSONDecodeError", "ValueError", "Exception"},
      OpenProjectError     |-> {"OpenProjectError", "Exception"} ]

IsInstance(exc, class) == class \in ExceptionBases[exc.class]

\* status_code when the error was built without one (None in the code; no
\* response has status 0).
NoStatus == 0

Exc(class, message) ==
    [class |-> class, message |-> message, status_code |-> NoStatus, api_message |-> None]

\* Nothing was raised.
NoError == Exc(None, <<>>)

\* OpenProjectError(message, status_code, api_message)
NewOpenProjectError(message, status_code, api_message) ==
    [ class |-> "OpenProjectError", message |-> message,
      status_code |-> status_code, api_message |-> api_message ]

Statuses == {200, 399, 400, 404, 500}
Bodies == {"", "body"}
\* The response as response.json() finds it: decodable, of another content
\* type, or of the JSON content type with a body that is no JSON.
JsonKinds == {"json", "other_content_type", "not_json"}

Outcomes ==
    {[raises |-> e, status |-> NoStatus, body |-> None, json |-> "json"] :
        e \in {"ClientConnectorError", "ServerTimeoutError", "TimeoutError"}}
    \cup [raises : {None}, status : {st \in Statuses : st >= 400},
                body : Bodies, json : {"json"}]
    \cup [raises : {None}, status : {st \in Statuses : st < 400},
                body : {"body"}, json : JsonKinds]

\* The request succeeds, the server refuses it, the connection fails.
Answered == [raises |-> None, status |-> 200, body |-> "body", json |-> "json"]
Refused == [raises |-> None, status |-> 500, body |-> "body", json |-> "json"]
Unreachable ==
    [raises |-> "ClientConnectorError", status |-> NoStatus, body |-> None, json |-> "json"]

\* The message texts, as lists of their parts: f"{prefix}: {str(e)}".
ConfigMessage == <<"URL do OpenProject ou API Key nao configurados.">>
HttpMessage(status) == <<"Erro HTTP", ToString(status)>>

\* What is raised inside the try block of _make_request, if anything.
RaisedInTry(outcome) ==
    IF outcome.raises # None THEN Exc(outcome.raises, <<outcome.raises>>)
    ELSE IF outcome.status >= 400
    THEN NewOpenProjectError(HttpMessage(outcome.status), outcome.status, outcome.body)
    ELSE IF outcome.json = "other_content_type"
    THEN Exc("ContentTypeError", <<"ContentTypeError">>)
    ELSE IF outcome.json = "not_json"
    THEN Exc("JSONDecodeError", <<"JSONDecodeError">>)
    ELSE NoError

\* The except clauses of _make_request, in their order.
ExceptClauses(exc) ==
    IF IsInstance(exc, "ClientError")
    THEN NewOpenProjectError(<<"Erro de conexao">> \o exc.message, NoStatus, None)
    ELSE IF IsInstance(exc, "JSONDecodeError")
    THEN NewOpenProjectError(<<"Erro ao decodificar resposta JSON">>, NoStatus, None)
    ELSE NewOpenProjectError(<<"Erro inesperado">> \o exc.message, NoStatus, None)

\* if not self.base_url or not self.api_key
NotConfigured_url_only(config) == config.base_url = ""

NotConfigured(config) ==
    config.base_url = "" \/ config.api_key \in {None, ""}

\* _make_request: was the request sent, did the call raise, and what.
MakeRequest(config, outcome) ==
    IF NotConfigured(config)
    THEN [ sent |-> FALSE, raised |-> TRUE,
           error |-> NewOpenProjectError(ConfigMessage, NoStatus, None) ]
    ELSE IF RaisedInTry(outcome) # NoError
    THEN [ sent |-> TRUE, raised |-> TRUE,
           error |-> ExceptClauses(RaisedInTry(outcome)) ]
    ELSE [ sent |-> TRUE, raised |-> FALSE, error |-> NoError ]

\* except Exception as e: raise OpenProjectError(f"{prefix}: {str(e)}")
Wrapped(prefix, error) ==
    NewOpenProjectError(<<prefix>> \o error.message, NoStatus, None)

RemoteFrame ==
    UNCHANGED <<pending_tasks, heap, nextId, approval_msgs, now, faults,
                call, req, settings>>

OpenProjectRepository_make_request(method, outcome) ==
    LET answer == MakeRequest(settings, outcome) IN
    /\ last' = [ op |-> "_make_request", method |-> method, outcome |-> outcome,
                 sent |-> answer.sent, raised |-> answer.raised,
                 error |-> answer.error ]
    /\ UNCHANGED <<projects_cache, cache_timestamp, versions_cache>>
    /\ RemoteFrame

OpenProjectRepository_get_projects(outcome, listing) ==
    LET answer == MakeRequest(settings, outcome) IN
    /\ IF CacheFresh(now)
       THEN /\ last' = [ op |-> "get_projects",
                         sent |-> FALSE, raised |-> FALSE, error |-> NoError ]
            /\ UNCHANGED <<projects_cache, cache_timestamp>>
       ELSE IF answer.raised
       THEN /\ last' = [ op |-> "get_projects",
                         sent |-> answer.sent, raised |-> TRUE,
                         error |-> Wrapped("Erro ao obter projetos", answer.error) ]
            /\ UNCHANGED <<projects_cache, cache_timestamp>>
       ELSE /\ last' = [ op |-> "get_projects",
                         sent |-> TRUE, raised |-> FALSE, error |-> NoError,
                         listing |-> listing, result |-> ActiveProjects(listing) ]
            /\ projects_cache' = ActiveProjects(listing)
            /\ cache_timestamp' = now
    /\ UNCHANGED versions_cache
    /\ RemoteFrame

OpenProjectRepository_get_project_versions(project_id, outcome, versions) ==
    LET answer == MakeRequest(settings, outcome) IN
    /\ IF VersionsFresh(project_id, now)
       THEN /\ last' = [ op |-> "get_project_versions",
                         sent |-> FALSE, raised |-> FALSE, error |-> NoError ]
            /\ UNCHANGED versions_cache
       ELSE IF answer.raised
       THEN /\ last' = [ op |-> "get_project_versions",
                         sent |-> answer.sent, raised |-> TRUE,
                         error |-> Wrapped("Erro ao obter versoes", answer.error) ]
            /\ UNCHANGED versions_cache
       ELSE /\ last' = [ op |-> "get_project_versions",
                         sent |-> TRUE, raised |-> FALSE, error |-> NoError ]
            /\ versions_cache' =
                 [k \in DOMAIN versions_cache \cup {cache_key(project_id)} |->
                    IF k = cache_key(project_id)
                    THEN [versions |-> versions, timestamp |-> now]
                    ELSE versions_cache[k]]
    /\ UNCHANGED <<projects_cache, cache_timestamp>>
    /\ RemoteFrame

\* ------------------------------------------------------------- date_utils
\* convert_date_format: "" when empty or refused by validate_date, "" when
\* split('/') does not give three parts (the ValueError is caught), else
\* the parts put together as f"{year}-{month}-{day}".
convert_date_format(date_str) ==
    IF date_str = <<>> THEN <<>>
    ELSE IF ~validate_date(date_str) THEN <<>>
    ELSE IF Cardinality({i \in 1..Len(date_str) : date_str[i] = "/"}) # 2 THEN <<>>
    ELSE SubSeq(date_str, 7, Len(date_str)) \o <<"-">>
           \o SubSeq(date_str, 4, 5) \o <<"-">> \o SubSeq(date_str, 1, 2)

RECURSIVE Pow10(_)
Pow10(k) == IF k = 0 THEN 1 ELSE 10 * Pow10(k - 1)

DotAt(text) ==
    IF \E i \in 1..Len(text) : text[i] = "."
    THEN CHOOSE i \in 1..Len(text) :
            text[i] = "." /\ \A j \in 1..(i - 1) : text[j] # "."
    ELSE Len(text) + 1

WholePart(text) == DigitsValue(SubSeq(text, 1, DotAt(text) - 1))
FractionDigits(text) == SubSeq(text, DotAt(text) + 1, Len(text))

RECURSIVE Pow2(_)
Pow2(k) == IF k = 0 THEN 1 ELSE 2 * Pow2(k - 1)

\* 2^k modulo m
RECURSIVE Pow2Mod(_, _)
Pow2Mod(k, m) == IF k = 0 THEN 1 % m ELSE (2 * Pow2Mod(k - 1, m)) % m

\* The exponent e with 2^e <= x < 2^(e+1) for x = whole + n / 10^k > 0.
Exponent(whole, n, k) ==
    IF whole >= 1
    THEN CHOOSE e \in 0..29 : Pow2(e) <= whole /\ whole < Pow2(e + 1)
    ELSE 0 - (CHOOSE j \in 1..29 :
                 n * Pow2(j) >= Pow10(k) /\ n * Pow2(j - 1) < Pow10(k))

\* The exponent of the floats just below the whole number m >= 1.
ExponentBelow(m) ==
    CHOOSE t \in (0 - 1)..29 : Pow2(t + 1) < 2 * m /\ 2 * m <= Pow2(t + 2)

\* int((hours - horas_inteiras) * 60) in IEEE 754 double arithmetic, for
\* hours = float of the decimal whole + n / 10^k (whole < 2^29, k <= 3).
\* float() rounds the decimal to the nearest double: r / 10^k is what it
\* leaves above the double below, in units of the last place. The
\* subtraction of the whole part is exact. The product with 60 is rounded
\* again: when 60 n / 10^k is a whole number m and float() rounded down, the
\* product is below m by 60 r / 10^k units and becomes m only if that is
\* at most half the distance between the floats under m.
FloatMinutes(whole, n, k) ==
    LET r == (n * Pow2Mod(52 - Exponent(whole, n, k), Pow10(k))) % Pow10(k)
        m == (60 * n) \div Pow10(k)
        d == Exponent(whole, n, k) - ExponentBelow(m)
    IN  IF (60 * n) % Pow10(k) # 0 THEN m
        ELSE IF r = 0 \/ 2 * r > Pow10(k) THEN m
        ELSE IF 120 * r * Pow2(IF d > 0 THEN d ELSE 0)
                   <= Pow10(k) * Pow2(IF d < 0 THEN 0 - d ELSE 0)
        THEN m
        ELSE m - 1

Minutes(text) ==
    IF DigitsValue(FractionDigits(text)) = 0 THEN 0
    ELSE FloatMinutes(WholePart(text), DigitsValue(FractionDigits(text)),
                      Len(FractionDigits(text)))

\* format_duration of a text: no value (None in the code), or the parts of
\* PT<h>H / PT<h>H<m>M.
NoDuration == <<>>

\* The two return statements, for the number sign * (the decimal in text):
\* int() cuts towards zero, so both parts take the sign of the number.
FormatHours(sign, text) ==
    IF sign * Minutes(text) > 0
    THEN <<"PT", sign * WholePart(text), "H", sign * Minutes(text), "M">>
    ELSE <<"PT", sign * WholePart(text), "H">>

\* format_duration of a str.
format_duration(hours) ==
    IF hours = <<>> THEN NoDuration
    ELSE IF ~IsDigit(RemoveFirstDot(hours)) THEN NoDuration
    ELSE IF ~FloatParses(hours) THEN NoDuration
    ELSE FormatHours(1, hours)

\* format_duration of an int or a float, given by its sign and the decimal
\* digits of its magnitude: the isinstance branch is skipped.
format_duration_number(negative, magnitude) ==
    FormatHours(IF negative THEN 0 - 1 ELSE 1, magnitude)

\* ------------------------------------------------------------ create_task
\* The truth value of a text held as its characters.
TextTruthy(text) == text # <<>>

\* dict.get(key, default): the default only for a missing key.
GetOr(value, default) == IF value = None THEN default ELSE value

\* TaskService.create_task: the formatted dates are written into the dict.
WithFormattedDates(task_data) ==
    [task_data EXCEPT
        !.data_inicio_formatada =
            IF TextTruthy(task_data.data_inicio)
            THEN convert_date_format(task_data.data_inicio) ELSE @,
        !.data_fim_formatada =
            IF TextTruthy(task_data.data_fim)
            THEN convert_date_format(task_data.data_fim) ELSE @]

NL == "\n"

\* description_text, as the list of the pieces it is concatenated from (a
\* date piece by piece, as its characters).
DescriptionText(task_data) ==
    <<GetOr(task_data.descricao, ""), NL, NL>>
    \o (IF TextTruthy(task_data.data_inicio)
        THEN <<"Data de inicio: ">> \o task_data.data_inicio \o <<NL>> ELSE <<>>)
    \o (IF TextTruthy(task_data.data_fim)
        THEN <<"Data de termino: ">> \o task_data.data_fim \o <<NL>> ELSE <<>>)
    \o (IF Truthy(task_data.version_name)
        THEN <<"Versao: ", task_data.version_name, NL>> ELSE <<>>)
    \o <<"Solicitado por: ", GetOr(task_data.solicitante_nome, "Usuario"), NL>>
    \o <<"Aprovado por: ", GetOr(task_data.aprovador_nome, "Aprovador")>>

\* if task_data.get('version_id'), with the test left out.
VersionLink_always(task_data) == TRUE

\* if task_data.get('version_id')
VersionLink(task_data) == Truthy(task_data.version_id)

\* The estimate put in the payload as it was typed.
EstimatedTime_raw(task_data) == task_data.estimativa

\* The value the payload gets for estimatedTime, NoDuration for none.
EstimatedTime(task_data) ==
    IF TextTruthy(task_data.estimativa)
    THEN format_duration(task_data.estimativa) ELSE NoDuration

Href(kind, id) == <<"/api/v3/", kind, "/", id>>

\* payload, with _links flattened: a key is in the domain when it is set.
Payload(task_data) ==
    [ subject |-> task_data.nome_da_tarefa,
      description |-> DescriptionText(task_data),
      project |-> Href("projects", task_data.project_id),
      type |-> Href("types", "1"),
      status |-> Href("statuses", "2") ]
    @@ (IF VersionLink(task_data)
        THEN [version |-> Href("versions", task_data.version_id)] ELSE <<>>)
    @@ (IF TextTruthy(task_data.data_inicio_formatada)
        THEN [startDate |-> task_data.data_inicio_formatada] ELSE <<>>)
    @@ (IF TextTruthy(task_data.data_fim_formatada)
        THEN [dueDate |-> task_data.data_fim_formatada] ELSE <<>>)
    @@ (IF EstimatedTime(task_data) # NoDuration
        THEN [estimatedTime |-> EstimatedTime(task_data)] ELSE <<>>)

\* TaskService.create_task and OpenProjectRepository.create_task under it:
\* the dates are converted, the task is checked, the payload is built and
\* posted, and the project is looked up for the link of the result.
NoPayload == <<>>

ValidationMessage(task_data) ==
    IF ~Truthy(task_data.project_id)
    THEN <<"ID do projeto nao especificado.">>
    ELSE <<"Nome da tarefa nao especificado.">>

TaskService_create_task(task, post, lookup, listing) ==
    LET task_data == WithFormattedDates(task)
        posted == MakeRequest(settings, post)
        looked == MakeRequest(settings, lookup)
        answer(payload, sent, created, raised, error, links) ==
            [ op |-> "create_task", task_data |-> task_data, payload |-> payload,
              sent |-> sent, created |-> created, raised |-> raised,
              error |-> error, links |-> links ]
    IN
    /\ IF ~ValidTask(task_data)
       THEN /\ last' = answer(NoPayload, FALSE, FALSE, TRUE,
                         NewOpenProjectError(ValidationMessage(task_data), NoStatus, None),
                         {})
            /\ UNCHANGED <<projects_cache, cache_timestamp>>
       ELSE IF posted.raised
       THEN /\ last' = answer(Payload(task_data), posted.sent, FALSE, TRUE,
                         Wrapped("Erro ao criar tarefa", posted.error), {})
            /\ UNCHANGED <<projects_cache, cache_timestamp>>
       ELSE IF CacheFresh(now)
       THEN /\ last' = answer(Payload(task_data), TRUE, TRUE, FALSE, NoError,
                         ResultKeys(projects_cache, task_data.project_id))
            /\ UNCHANGED <<projects_cache, cache_timestamp>>
       ELSE IF looked.raised
       THEN /\ last' = answer(Payload(task_data), TRUE, TRUE, TRUE,
                         Wrapped("Erro ao criar tarefa",
                                 Wrapped("Erro ao obter projetos", looked.error)),
                         {})
            /\ UNCHANGED <<projects_cache, cache_timestamp>>
       ELSE /\ last' = answer(Payload(task_data), TRUE, TRUE, FALSE, NoError,
                         ResultKeys(ActiveProjects(listing), task_data.project_id))
            /\ projects_cache' = ActiveProjects(listing)
            /\ cache_timestamp' = now
    /\ UNCHANGED versions_cache
    /\ RemoteFrame

\* The task dicts handle_approval can hand over, and ones it cannot.
Task(project_id, title) ==
    [ project_id |-> project_id, nome_da_tarefa |-> title, descricao |-> "texto",
      data_inicio |-> <<>>, data_fim |-> <<>>,
      data_inicio_formatada |-> <<>>, data_fim_formatada |-> <<>>,
      version_name |-> None, version_id |-> None,
      solicitante_nome |-> "Ana", aprovador_nome |-> "Rui", estimativa |-> <<>> ]

RemoteTasks == { Task("1", "Tarefa"), Task(None, "Tarefa"), Task("1", ""), Task("1", None) }

\* Listings, one of them with two active elements, an inactive one and
\* one that has no active flag.
MixedListing ==
    <<Element("2", TRUE), [id |-> "3"], Element("4", FALSE), Element("1", TRUE)>>

ProjectListings == RemoteListings \cup {MixedListing}

RemoteInit ==
    /\ QuietInit
    /\ last = NoCall
    /\ settings \in Settings

RemoteNext ==
    \/ \E method \in {"GET", "POST"}, outcome \in Outcomes :
          OpenProjectRepository_make_request(method, outcome)
    \/ \E outcome \in Outcomes, listing \in ProjectListings :
          OpenProjectRepository_get_projects(outcome, listing)
    \/ \E project_id \in VersionProjects, outcome \in Outcomes,
          versions \in {<<"v1">>} :
          OpenProjectRepository_get_project_versions(project_id, outcome, versions)
    \/ \E task \in RemoteTasks, post \in Outcomes,
          lookup \in {Answered, Refused}, listing \in ProjectListings :
          TaskService_create_task(task, post, lookup, listing)

RemoteSpec == RemoteInit /\ [][RemoteNext]_vars

\* ================================================================ payload
\* create_task applied once to each task dict of a bounded set.

\* VersionSelect.callback: the "no specific version" option has value "0".
SelectedVersion(choice) == IF choice # "0" THEN choice ELSE None
SelectedVersionName(choice, label) == IF choice # "0" THEN label ELSE None
VersionChoices == {"0", "5"}

PayloadEstimates ==
    { <<>>, <<"2", ".", "5">>, <<"3">>, <<"0">>, <<"a", "b">>, <<SuperscriptTwo>> }

StartDates == { <<>>, Chars(<<"1", "5">>, <<"0", "5">>, <<"2", "0", "2", "5">>) }
DueDates == { <<>>, Chars(<<"3", "1">>, <<"1", "2">>, <<"2", "0", "2", "5">>) }

PayloadTasks ==
    { [ project_id |-> project_id, nome_da_tarefa |-> title, descricao |-> text,
        data_inicio |-> start, data_fim |-> due,
        data_inicio_formatada |-> <<>>, data_fim_formatada |-> <<>>,
        version_id |-> SelectedVersion(choice),
        version_name |-> SelectedVersionName(choice, "v1.0"),
        solicitante_nome |-> requester, aprovador_nome |-> approver,
        estimativa |-> estimate ] :
      project_id \in ProjectIds, title \in {None, "", "Tarefa"},
      text \in {"", "texto"}, start \in StartDates, due \in DueDates,
      choice \in VersionChoices, requester \in {None, "Ana"},
      approver \in {None, "Rui"}, estimate \in PayloadEstimates }

PayloadInit ==
    /\ QuietInit
    /\ settings = Configured
    /\ last \in {[op |-> "task", task |-> task] : task \in PayloadTasks}

PayloadNext ==
    \E post \in {Answered, Refused, Unreachable}, lookup \in {Answered, Refused},
       listing \in RemoteListings :
        /\ last.op = "task"
        /\ TaskService_create_task(last.task, post, lookup, listing)

PayloadSpec == PayloadInit /\ [][PayloadNext]_vars

\* ================================================================== dates
\* validate_date and convert_date_format applied to each text of a set.

DayTexts == { <<"0", "0">>, <<"0", "1">>, <<"1", "5">>, <<"2", "8">>,
              <<"2", "9">>, <<"3", "0">>, <<"3", "1">>, <<"3", "2">> }
MonthTexts == { <<"0", "0">>, <<"0", "1">>, <<"0", "2">>, <<"0", "5">>, <<"1", "2">>, <<"1", "5">> }
YearTexts == { <<"0", "0", "0", "0">>, <<"1", "9", "0", "0">>,
               <<"2", "0", "2", "4">>, <<"2", "0", "2", "5">> }

Shaped == { Chars(d, m, y) : d \in DayTexts, m \in MonthTexts, y \in YearTexts }

DateTexts ==
    Shaped
    \cup { text \o <<"\n">> : text \in Shaped }
    \cup { <<>>,
           <<"1", "/", "5", "/", "2", "0", "2", "5">>,
           <<"1", "5", "-", "0", "5", "-", "2", "0", "2", "5">>,
           <<"1", "5", "/", "0", "5", "/", "2", "0", "2", "5", " ">>,
           <<"\n", "1", "5", "/", "0", "5", "/", "2", "0", "2", "5">>,
           <<"a", "b", "/", "c", "d", "/", "e", "f", "g", "h">>,
           <<"2", "0", "2", "5", "-", "0", "5", "-", "1", "5">> }

DateInit ==
    /\ QuietInit
    /\ settings = Configured
    /\ last \in {[op |-> "text", text |-> text] : text \in DateTexts}

DateValidator_validate_date ==
    /\ last.op = "text"
    /\ last' = [ op |-> "validate_date", text |-> last.text,
                 result |-> validate_date(last.text) ]
    /\ UNCHANGED <<projects_cache, cache_timestamp, versions_cache>>
    /\ RemoteFrame

\* Both exceptions the body can raise are caught inside the function.
DateValidator_convert_date_format ==
    /\ last.op = "text"
    /\ last' = [ op |-> "convert_date_format", text |-> last.text,
                 raised |-> FALSE, result |-> convert_date_format(last.text) ]
    /\ UNCHANGED <<projects_cache, cache_timestamp, versions_cache>>
    /\ RemoteFrame

DateNext ==
    \/ DateValidator_validate_date
    \/ DateValidator_convert_date_format

DateSpec == DateInit /\ [][DateNext]_vars

\* ========================================================== compare_dates
\* compare_dates applied to each pair of texts of a set.
CompareTexts ==
    { <<>>,
      Chars(<<"1", "5">>, <<"0", "5">>, <<"2", "0", "2", "5">>),
      Chars(<<"1", "4">>, <<"0", "5">>, <<"2", "0", "2", "5">>),
      Chars(<<"0", "1">>, <<"0", "6">>, <<"2", "0", "2", "5">>),
      Chars(<<"3", "1">>, <<"1", "2">>, <<"2", "0", "2", "4">>),
      Chars(<<"2", "9">>, <<"0", "2">>, <<"2", "0", "2", "4">>),
      Chars(<<"3", "1">>, <<"0", "2">>, <<"2", "0", "2", "5">>),
      Chars(<<"1", "5">>, <<"1", "3">>, <<"2", "0", "2", "5">>),
      <<"1", "/", "5", "/", "2", "0", "2", "5">>,
      <<"2", "/", "5", "/", "2", "0", "2", "5">>,
      <<"1", "5", "/", "0", "5", "/", "2", "0", "2", "5", "\n">>,
      <<" ", "1", "6", "/", "0", "5", "/", "2", "0", "2", "5">>,
      <<"2", "0", "2", "5", "/", "0", "5", "/", "1", "5">>,
      <<"1", "5", "-", "0", "5", "-", "2", "0", "2", "5">>,
      <<"a", "b", "/", "c", "d", "/", "e", "f", "g", "h">>,
      <<"1", "5", "/", "0", "5">> }

CompareInit ==
    /\ QuietInit
    /\ settings = Configured
    /\ last \in {[op |-> "dates", start_date |-> a, end_date |-> b] :
                    a \in CompareTexts, b \in CompareTexts}

DateValidator_compare_dates ==
    /\ last.op = "dates"
    /\ last' = [ op |-> "compare_dates",
                 start_date |-> last.start_date, end_date |-> last.end_date,
                 result |-> compare_dates(last.start_date, last.end_date) ]
    /\ UNCHANGED <<projects_cache, cache_timestamp, versions_cache>>
    /\ RemoteFrame

CompareNext == DateValidator_compare_dates

CompareSpec == CompareInit /\ [][CompareNext]_vars

\* ======================================================== format_duration
\* format_duration applied to each value of a set of strs and numbers.
WholeTexts == { <<"0">>, <<"1">>, <<"2">>, <<"3">>, <<"4">>, <<"8">>, <<"1", "6">> }
FractionTexts ==
    { <<"5">>, <<"2", "5">>, <<"1">>, <<"2">>, <<"3">>, <<"7">>,
      <<"3", "5">>, <<"1", "5">>, <<"9", "9", "9">>, <<"0">> }

Magnitudes ==
    WholeTexts \cup { w \o <<".">> \o f : w \in WholeTexts, f \in FractionTexts }

HoursValues ==
    [is_str : {TRUE}, negative : {FALSE},
     text : Magnitudes
            \cup { <<"-">> \o text : text \in Magnitudes }
            \cup { <<>>, <<"a", "b">>, <<SuperscriptTwo>>, <<".", "5">>, <<"5", ".">>,
                   <<"1", ".", "2", ".", "3">>, <<" ">>, <<"1", "e", "3">> }]
    \cup [is_str : {FALSE}, negative : BOOLEAN, text : Magnitudes]

DurationInit ==
    /\ QuietInit
    /\ settings = Configured
    /\ last \in {[op |-> "hours", hours |-> hours] : hours \in HoursValues}

DateValidator_format_duration ==
    /\ last.op = "hours"
    /\ last' = [ op |-> "format_duration", hours |-> last.hours,
                 result |-> IF last.hours.is_str
                            THEN format_duration(last.hours.text)
                            ELSE format_duration_number(last.hours.negative,
                                                        last.hours.text) ]
    /\ UNCHANGED <<projects_cache, cache_timestamp, versions_cache>>
    /\ RemoteFrame

DurationNext == DateValidator_format_duration

DurationSpec == DurationInit /\ [][DurationNext]_vars

\* ------------------------------------------------------------------ claims
Found(r) == r.task_details # None          \* passed the get_pending_task lookup
Decided(r) == r.solicitante # None         \* reached its approve / reject branch
Ended(r) == r.pc = "done"
Pending(task_id) == task_id \in DOMAIN pending_tasks
NoReason(r) == r.reject_reason \in {None, ""}

\* C1: of two handle_approval calls on the same submission id at most one
\* passes the lookup; the other finds nothing, sends the requester nothing
\* and makes no remote call.
C1_OneDecisionActs ==
    \A a, b \in Calls :
        (a # b /\ call[a].task_id = call[b].task_id /\ Found(call[a]))
            => /\ ~Found(call[b])
               /\ call[b].req_sent = {}
               /\ ~call[b].posted

\* C2: the create-task POST is issued at most once per submission id.
C2_AtMostOnePost ==
    \A id \in TaskIds :
        Cardinality({c \in Calls : call[c].task_id = id /\ call[c].posted}) <= 1

\* C3: a call that found the submission and reached its approve or reject
\* branch ends with the submission id absent from the registry.
C3_EndsRemoved ==
    \A c \in Calls :
        (Ended(call[c]) /\ Found(call[c]) /\ Decided(call[c]))
            => ~Pending(call[c].task_id)

\* C4: when an approve decision's create_task failed, the call ends with the
\* entry removed and no create_task call for that id starts after the failure.
C4_FailedCreateIsFinal ==
    \A c \in Calls :
        /\ (Ended(call[c]) /\ call[c].created = "failed") => ~Pending(call[c].task_id)
        /\ ~call[c].after_failed

\* C5: the approved-but-not-created notification goes out only when
\* create_task failed, and never when it succeeded.
C5_InconsistencyOnlyOnFailure ==
    \A c \in Calls :
        LET told == "not_created" \in call[c].req_sent \cup call[c].apr_sent
        IN  /\ told => call[c].created = "failed"
            /\ call[c].created = "ok" => ~told

\* C6: a call whose create_task failed ends with the failure notified to
\* both the requester and the approver.
C6_FailureNotifiesBoth ==
    \A c \in Calls :
        (Ended(call[c]) /\ call[c].created = "failed")
            => /\ "not_created" \in call[c].req_sent
               /\ "not_created" \in call[c].apr_sent

\* C7: for one submission id the requester never gets both an approval
\* outcome and a rejection, and never the same outcome twice.
ReqSenders(id, kind) ==
    {c \in Calls : call[c].task_id = id /\ kind \in call[c].req_sent}

C7_OneOutcome ==
    \A id \in TaskIds :
        /\ (ReqSenders(id, "created") \cup ReqSenders(id, "not_created")) = {}
              \/ ReqSenders(id, "rejected") = {}
        /\ \A kind \in {"created", "not_created", "rejected"} :
              Cardinality(ReqSenders(id, kind)) <= 1

\* C8: a decision on an id that is not in the registry takes the not-found
\* branch (the not-found reply is what it sends next) and from there changes
\* nothing: registry and dicts as before, no remote call, nothing sent to
\* the requester.
InNotFound(r) ==
    \/ r.pc = "not_found_send"
    \/ r.exc = "not_found_send"
    \/ "not_found" \in r.apr_sent

C8_NotFoundStep(c) ==
    LET r == call[c]
        q == call'[c]
    IN  /\ (r.pc = "defer" /\ q.pc # "defer" /\ faults' = faults
              /\ ~Pending(r.task_id))
            => q.pc = "not_found_send" /\ ~Found(q)
        /\ (r.pc = "not_found_send" /\ q.pc = "done") => "not_found" \in q.apr_sent
        /\ (InNotFound(r) /\ q # r)
            => /\ InNotFound(q)
               /\ pending_tasks' = pending_tasks
               /\ heap' = heap
               /\ projects_cache' = projects_cache
               /\ cache_timestamp' = cache_timestamp
               /\ ~q.posted /\ q.created = "none" /\ q.req_sent = {}

C8_NotFoundChangesNothing == [][\A c \in Calls : C8_NotFoundStep(c)]_vars

\* Reached: the not-found reply to a decision on an id that was submitted
\* and has been removed since.
C8_Witness ==
    \E c \in Calls :
        /\ Ended(call[c]) /\ "not_found" \in call[c].apr_sent
        /\ call[c].task_id \in DOMAIN heap
        /\ ~Pending(call[c].task_id)

\* C9: a reject decision on a present submission ends having made no remote
\* call, with requester and approver notified and the entry removed.
C9_RejectNotifiesAndRemoves ==
    \A c \in Calls :
        (Ended(call[c]) /\ ~call[c].approved /\ Found(call[c]) /\ Decided(call[c]))
            => /\ ~call[c].posted /\ call[c].created = "none"
               /\ "rejected" \in call[c].req_sent
               /\ "rejected" \in call[c].apr_sent
               /\ ~Pending(call[c].task_id)

\* C10 as claimed: a reject call without a reason notifies no rejection.
C10_EmptyReasonNotApplied ==
    \A c \in Calls :
        (~call[c].approved /\ NoReason(call[c]))
            => /\ "rejected" \notin call[c].req_sent
               /\ "rejected" \notin call[c].apr_sent

\* C10 as amended: handle_approval asks for no reason.  A reject call
\* without one is carried out like any other; its notifications carry the
\* placeholder, a given reason is carried as given, and once the approver
\* has the confirmation the entry is gone.
C10_RejectCarriesReason ==
    \A c \in Calls :
        LET r == call[c] IN
        /\ (~r.approved /\ "rejected" \in r.req_sent)
            => /\ r.motivo \notin {None, ""}
               /\ NoReason(r) => r.motivo = DefaultMotivo
               /\ ~NoReason(r) => r.motivo = r.reject_reason
        /\ "rejected" \in r.apr_sent
            => "rejected" \in r.req_sent /\ ~Pending(r.task_id)

C10_Witness ==
    \E c \in Calls :
        /\ Ended(call[c]) /\ ~call[c].approved /\ NoReason(call[c])
        /\ "rejected" \in call[c].req_sent
        /\ "rejected" \in call[c].apr_sent
        /\ call[c].motivo = DefaultMotivo

\* --------------------------------------------------------- claims C11..C20
Submitted == last.op = "on_submit"

\* C11: a submit with an empty title fails validation in the handler and
\* leaves the registry as it was.
C11_EmptyTitleRejected ==
    (Submitted /\ last.form.task_name = "")
        => /\ last.outcome # "ok"
           /\ pending_tasks = last.before

\* The form is one the claim calls invalid: a non-numeric estimate, a start
\* or due date that is no date, a due date before the start, no project.
BadForm(form) ==
    \/ form.task_estimate # <<>> /\ ~FloatParses(form.task_estimate)
    \/ ~validate_date(form.start_date)
    \/ ~validate_date(form.due_date)
    \/ ~compare_dates(form.start_date, form.due_date).ok
    \/ form.project_id = None

\* C12: a submit with such a form adds nothing to the registry, reaches no
\* remote listing and sends the approver nothing.
C12_BadFormFailsFast ==
    (Submitted /\ BadForm(last.form))
        => /\ last.outcome # "ok"
           /\ pending_tasks = last.before
           /\ approval_msgs = last.sent_before
           /\ projects_cache = <<>> /\ versions_cache = <<>>

\* C13: add on an id that is already registered fails and leaves the
\* existing entry as it was.
C13_AddNeverOverwrites ==
    (last.op = "add" /\ last.task_id \in DOMAIN last.before)
        => /\ last.raised
           /\ pending_tasks = last.before

\* C14: remove of an absent id (a second remove included) raises nothing
\* and changes no entry; get raises nothing, changes nothing, and answers
\* none for an absent id and the registered submission for a present one;
\* remove of a present id takes out that entry and no other.
C14_RemoveIdempotentGetTotal ==
    /\ last.op \in {"get", "remove"} => ~last.raised
    /\ (last.op = "remove" /\ last.task_id \notin DOMAIN last.before)
          => pending_tasks = last.before
    /\ (last.op = "remove" /\ last.task_id \in DOMAIN last.before)
          => /\ DOMAIN pending_tasks = DOMAIN last.before \ {last.task_id}
             /\ \A k \in DOMAIN pending_tasks : pending_tasks[k] = last.before[k]
    /\ last.op = "get"
          => /\ pending_tasks = last.before
             /\ last.task_id \notin DOMAIN last.before => last.result = None
             /\ last.task_id \in DOMAIN last.before
                   => last.result = last.before[last.task_id]

\* Reached: a remove of an id that is absent while another entry is
\* registered (the second remove after add, remove).
C14_Witness ==
    /\ last.op = "remove"
    /\ last.task_id \notin DOMAIN last.before
    /\ last.before # <<>>
    /\ pending_tasks = last.before

\* An id that was registered and is no longer in the registry.
Removed(id) == id \in DOMAIN heap /\ id \notin DOMAIN pending_tasks

\* C15: an id that has been removed is never in the registry again, and a
\* lookup of it finds nothing, whatever is submitted or decided afterwards.
C15_RemovedStaysRemoved ==
    [][\A id \in LifecycleIds :
          Removed(id) => /\ get_pending_task(id) = None
                         /\ id \notin DOMAIN pending_tasks']_vars

\* Reached: an id was removed, a later submission was registered, and a
\* later decision on the removed id was answered with not-found.
C15_Witness ==
    \E n \in 1..MaxLifecycleSubmits, m \in 1..MaxLifecycleSubmits :
        /\ n < m
        /\ Removed(TaskId(n))
        /\ TaskId(m) \in DOMAIN pending_tasks
        /\ \E c \in Calls : /\ call[c].task_id = TaskId(n)
                            /\ "not_found" \in call[c].apr_sent

\* A call of the listing op that is under way or has just answered.
Called(r, op) == req[r].pc # "idle" /\ req[r].op = op
\* The call was made inside the cache window of an earlier fetch.
InWindow(r) ==
    /\ req[r].ts_before > 0
    /\ req[r].current_time - req[r].ts_before < CACHE_DURATION

\* C16: a get_projects call in a fresh process fetches; one made inside the
\* window of the last fetch does not fetch and returns the cached list,
\* whatever that fetch returned; one made at or past the window fetches.
C16_FetchOncePerWindow ==
    \A r \in Reqs :
        Called(r, "get_projects")
            => /\ req[r].ts_before = 0 => req[r].fetched
               /\ InWindow(r) => /\ ~req[r].fetched
                                 /\ req[r].result = req[r].cached_before
               /\ (req[r].ts_before > 0 /\ ~InWindow(r)) => req[r].fetched

\* C17: the selector's refresh always issues a remote fetch, inside the
\* cache window too.
C17_RefreshAlwaysFetches ==
    \A r \in Reqs : Called(r, "refresh_projects") => req[r].fetched

\* C18: when the remote fetch of get_projects or get_project_versions
\* fails, the caller gets the error, not a list, and the cached lists and
\* their timestamps stay as they were.
C18_FailurePropagates ==
    [][\A r \in Reqs :
          (req[r].pc = "fetching" /\ req'[r].pc # "fetching" /\ faults' # faults)
              => /\ req'[r].pc = "raised"
                 /\ req'[r].result = OpenProjectError
                 /\ projects_cache' = projects_cache
                 /\ cache_timestamp' = cache_timestamp
                 /\ versions_cache' = versions_cache]_vars

\* Reached: get_projects failed while a stale, non-empty list was cached.
C18_Witness ==
    \E r \in Reqs :
        /\ req[r].pc = "raised" /\ req[r].op = "get_projects"
        /\ req[r].cached_before # <<>>
        /\ projects_cache = req[r].cached_before
        /\ req[r].result = OpenProjectError

\* C19: a get_project_versions(p) call inside the window of p's last fetch
\* does not fetch and returns p's cached list; a call for another project
\* leaves p's list and timestamp as they were.
C19_VersionsKeyedPerProject ==
    [][\A r \in Reqs :
          /\ (req'[r].pc # "idle" /\ req'[r].op = "get_project_versions"
                /\ req'[r].ts_before > 0
                /\ req'[r].current_time - req'[r].ts_before < CACHE_DURATION)
                => /\ ~req'[r].fetched
                   /\ req'[r].result = req'[r].cached_before
          /\ (req[r].op = "get_project_versions" \/ req'[r].op = "get_project_versions")
                => \A p \in VersionProjects \ {req[r].project_id, req'[r].project_id} :
                      /\ VersionsList(p)' = VersionsList(p)
                      /\ VersionsTimestamp(p)' = VersionsTimestamp(p)]_vars

\* Reached: project "1" answered from its cache after project "2" was
\* fetched later, with a different list.
C19_Witness ==
    \E r \in Reqs :
        /\ req[r].pc = "returned" /\ req[r].op = "get_project_versions"
        /\ req[r].project_id = "1" /\ ~req[r].fetched
        /\ VersionsTimestamp("2") > VersionsTimestamp("1")
        /\ VersionsList("2") # VersionsList("1")
        /\ req[r].result = VersionsList("1")

\* C20: two calls for the same listing, started before either completes,
\* never both have a remote fetch under way.
C20_SingleFlight ==
    \A a, b \in Reqs :
        (a # b /\ req[a].pc = "fetching" /\ req[b].pc = "fetching"
             /\ req[a].op = req[b].op /\ req[a].project_id = req[b].project_id)
            => ~(req[a].fetched /\ req[b].fetched)


\* ----------------------------------------------------- claims C21..C30

\* C21: for a response with status >= 400 the error _make_request raises
\* to its caller has the status of the response as status_code and the
\* body of the response as api_message.
C21_HttpErrorCarriesStatusAndBody ==
    ( /\ last.op = "_make_request"
      /\ last.sent
      /\ last.outcome.raises = None
      /\ last.outcome.status >= 400 )
    => /\ last.raised
       /\ last.error.status_code = last.outcome.status
       /\ last.error.api_message = last.outcome.body

Unset(config) == config.base_url = "" \/ config.api_key = None \/ config.api_key = ""

RemoteOps == {"get_projects", "get_project_versions", "create_task"}

Kind(error) == <<error.class, error.message[1]>>

IsTimeout(outcome) ==
    outcome.raises # None /\ "TimeoutError" \in ExceptionBases[outcome.raises]

OtherFailure(outcome) ==
    \/ outcome.raises # None /\ ~IsTimeout(outcome)
    \/ outcome.raises = None /\ outcome.status < 400 /\ outcome.json # "json"

\* C23: the error _make_request raises for a request that timed out is
\* of another kind than the error it raises for any other connection
\* failure and for any response that is not JSON.
C23_TimeoutDistinct ==
    (last.op = "_make_request" /\ last.sent /\ IsTimeout(last.outcome))
    => \A other \in Outcomes :
          OtherFailure(other)
          => Kind(MakeRequest(settings, other).error) # Kind(last.error)

Built == last.op = "create_task" /\ DOMAIN last.payload # {}

\* C24: create_task of a task without project id, or without title or
\* with an empty one, raises the validation error, builds no payload and
\* sends no request.
C24_InvalidTaskNeverPosted ==
    ( /\ last.op = "create_task"
      /\ \/ last.task_data.project_id = None
         \/ last.task_data.nome_da_tarefa = None
         \/ last.task_data.nome_da_tarefa = "" )
    => /\ last.raised
       /\ ~last.sent
       /\ ~Built
       /\ last.error.message \in { <<"ID do projeto nao especificado.">>,
                                   <<"Nome da tarefa nao especificado.">> }

\* C24 witness: a task with a project and an empty title was refused
\* unsent.
C24_Witness ==
    /\ last.op = "create_task"
    /\ last.task_data.project_id = "1" /\ last.task_data.nome_da_tarefa = ""
    /\ last.raised /\ ~last.sent
    /\ last.error.message = <<"Nome da tarefa nao especificado.">>

\* str.split('\n') of a text held as its pieces.
RECURSIVE SplitLines(_)
SplitLines(text) ==
    IF \A i \in 1..Len(text) : text[i] # NL THEN <<text>>
    ELSE LET i == CHOOSE i \in 1..Len(text) :
                    text[i] = NL /\ \A j \in 1..(i - 1) : text[j] # NL
         IN  <<SubSeq(text, 1, i - 1)>> \o SplitLines(SubSeq(text, i + 1, Len(text)))

\* The lines the body is to have: one per present field, in the order
\* description, start, due, version, requester, approver; a blank line may
\* part a description from what follows it.
ExpectedLines(task_data) ==
    (IF Truthy(task_data.descricao) THEN << <<task_data.descricao>>, <<>> >> ELSE <<>>)
    \o (IF task_data.data_inicio # <<>>
        THEN << <<"Data de inicio: ">> \o task_data.data_inicio >> ELSE <<>>)
    \o (IF task_data.data_fim # <<>>
        THEN << <<"Data de termino: ">> \o task_data.data_fim >> ELSE <<>>)
    \o (IF Truthy(task_data.version_name)
        THEN << <<"Versao: ", task_data.version_name>> >> ELSE <<>>)
    \o (IF Truthy(task_data.solicitante_nome)
        THEN << <<"Solicitado por: ", task_data.solicitante_nome>> >> ELSE <<>>)
    \o (IF Truthy(task_data.aprovador_nome)
        THEN << <<"Aprovado por: ", task_data.aprovador_nome>> >> ELSE <<>>)

\* C25: the description of the payload has one line for each field that
\* is present, in the fixed order, and no line for a field that is absent.
C25_DescriptionLines ==
    Built => SplitLines(last.payload.description) = ExpectedLines(last.task_data)

\* C26: the payload has a version link if and only if the task has a
\* version id, and the link then names that version; with no version
\* selected the key is not in the payload.
C26_VersionLinkIffSelected ==
    Built =>
      IF last.task_data.version_id = None \/ last.task_data.version_id = ""
      THEN "version" \notin DOMAIN last.payload
      ELSE /\ "version" \in DOMAIN last.payload
           /\ last.payload.version = <<"/api/v3/", "versions", "/", last.task_data.version_id>>

\* C26 witness: a payload was posted for a task with no version selected,
\* and it has no version key.
C26_Witness ==
    /\ Built /\ last.sent
    /\ last.task_data.version_id = None
    /\ "version" \notin DOMAIN last.payload

\* C27: the payload has estimatedTime exactly when format_duration gives
\* a value for the estimate of the task, and it is that value.
C27_EstimatedTimeIffDuration ==
    Built =>
      IF format_duration(last.task_data.estimativa) = NoDuration
      THEN "estimatedTime" \notin DOMAIN last.payload
      ELSE /\ "estimatedTime" \in DOMAIN last.payload
           /\ last.payload.estimatedTime = format_duration(last.task_data.estimativa)

\* C27 witness: the estimate 2.5 was posted as PT2H30M.
C27_Witness ==
    /\ Built /\ last.sent
    /\ last.task_data.estimativa = <<"2", ".", "5">>
    /\ last.payload.estimatedTime = <<"PT", 2, "H", 30, "M">>

\* The ids of the elements of a listing that carry active = true, in the
\* order of the listing.
RECURSIVE ActiveIds(_)
ActiveIds(listing) ==
    IF listing = <<>> THEN <<>>
    ELSE (IF "active" \in DOMAIN Head(listing) /\ Head(listing).active = TRUE
          THEN <<Head(listing).id>> ELSE <<>>)
         \o ActiveIds(Tail(listing))

Fetched == last.op = "get_projects" /\ last.sent /\ ~last.raised

\* C28: a get_projects that fetched returns, and leaves in the cache, the
\* elements of the remote listing whose active flag is true, in the order
\* of the listing, and none whose flag is false or missing.
C28_OnlyActiveInRemoteOrder ==
    Fetched => /\ last.result = ActiveIds(last.listing)
               /\ projects_cache = ActiveIds(last.listing)

\* C28 witness: a listing with two active elements, one without flag and
\* an inactive one was fetched, and the two active ones were kept in order.
C28_Witness ==
    /\ Fetched
    /\ last.listing = MixedListing
    /\ last.result = <<"2", "1">>
    /\ projects_cache = <<"2", "1">>

\* A text of the form DD/MM/YYYY, ten characters, that names a day of the
\* calendar.
RealCalendarDate(text) ==
    /\ Len(text) = 10
    /\ text[3] = "/" /\ text[6] = "/"
    /\ \A i \in {1, 2, 4, 5, 7, 8, 9, 10} : text[i] \in DecimalChars
    /\ Year(text) \in 1..9999
    /\ Month(text) \in 1..12
    /\ Day(text) >= 1
    /\ Day(text) <= (CASE Month(text) \in {1, 3, 5, 7, 8, 10, 12} -> 31
                       [] Month(text) \in {4, 6, 9, 11} -> 30
                       [] OTHER -> IF Year(text) % 400 = 0
                                      \/ (Year(text) % 4 = 0 /\ Year(text) % 100 # 0)
                                   THEN 29 ELSE 28)

\* C29: validate_date is true for the empty text, true for every text of
\* the form DD/MM/YYYY that names a day of the calendar, and false for
\* every other text.
C29_ValidateDateExact ==
    last.op = "validate_date"
    => (last.result <=> (last.text = <<>> \/ RealCalendarDate(last.text)))

\* C30: convert_date_format does not raise; it gives the empty text for
\* an empty or invalid text and YYYY-MM-DD, digit for digit, for a text
\* DD/MM/YYYY that names a day of the calendar.
C30_ConvertDateTotal ==
    last.op = "convert_date_format"
    => /\ ~last.raised
       /\ IF RealCalendarDate(last.text)
          THEN last.result = << last.text[7], last.text[8], last.text[9], last.text[10], "-",
                                last.text[4], last.text[5], "-",
                                last.text[1], last.text[2] >>
          ELSE last.result = <<>>

\* ----------------------------------------------------- claims C31..C40

Compared == last.op = "compare_dates"

\* The day end_date names is before the day start_date names.
EndBeforeStart ==
    \/ Year(last.end_date) < Year(last.start_date)
    \/ /\ Year(last.end_date) = Year(last.start_date)
       /\ Month(last.end_date) < Month(last.start_date)
    \/ /\ Year(last.end_date) = Year(last.start_date)
       /\ Month(last.end_date) = Month(last.start_date)
       /\ Day(last.end_date) < Day(last.start_date)

\* C31: for two valid dates compare_dates gives (true, "") when the end is
\* on or after the start, the same day included, and (false, a message)
\* when the end is before the start; with either text empty it gives
\* (true, "").
C31_CompareByCalendarDate ==
    Compared =>
      /\ (last.start_date = <<>> \/ last.end_date = <<>>)
            => last.result = [ok |-> TRUE, message |-> ""]
      /\ (RealCalendarDate(last.start_date) /\ RealCalendarDate(last.end_date))
            => IF EndBeforeStart
               THEN ~last.result.ok /\ last.result.message # ""
               ELSE last.result = [ok |-> TRUE, message |-> ""]

\* C31 witness: the same valid day as start and as end compared as
\* consistent.
C31_Witness ==
    /\ Compared
    /\ RealCalendarDate(last.start_date)
    /\ last.end_date = last.start_date
    /\ last.result = [ok |-> TRUE, message |-> ""]

\* C32: with both texts given and at least one of them not a valid
\* DD/MM/YYYY date, compare_dates gives (false, the format message).
C32_MalformedNeverConsistent ==
    ( /\ Compared
      /\ last.start_date # <<>> /\ last.end_date # <<>>
      /\ ~(RealCalendarDate(last.start_date) /\ RealCalendarDate(last.end_date)) )
    => last.result = [ok |-> FALSE, message |-> FormatMessage]

Formatted == last.op = "format_duration"

\* A text that writes a decimal number: digits with at most one dot.
Numeral(text) ==
    /\ \A i \in 1..Len(text) : text[i] \in DecimalChars \cup {"."}
    /\ \E i \in 1..Len(text) : text[i] \in DecimalChars
    /\ Cardinality({i \in 1..Len(text) : text[i] = "."}) <= 1

NonZero(text) == \E i \in 1..Len(text) : text[i] \in DecimalChars \ {"0"}

\* The value handed to format_duration is below zero.
NegativeHours ==
    IF last.hours.is_str
    THEN /\ last.hours.text # <<>>
         /\ Head(last.hours.text) = "-"
         /\ Numeral(Tail(last.hours.text))
         /\ NonZero(last.hours.text)
    ELSE last.hours.negative /\ NonZero(last.hours.text)

\* The value handed to format_duration is zero or above.
NonNegativeHours ==
    IF last.hours.is_str THEN Numeral(last.hours.text)
    ELSE ~last.hours.negative \/ ~NonZero(last.hours.text)

\* C33: format_duration gives None for every negative value, given as a
\* number or as a str, and for every str that is empty or writes no
\* number; it gives a duration only for a value that is zero or above.
C33_NegativeAndNonNumericRejected ==
    Formatted =>
      /\ NegativeHours => last.result = NoDuration
      /\ (last.hours.is_str /\ ~Numeral(last.hours.text) /\ ~NegativeHours)
            => last.result = NoDuration
      /\ last.result # NoDuration => NonNegativeHours

\* The whole hours and the minutes of the decimal the value is written as:
\* H = floor(h), M = floor((h - H) * 60).
DecimalHours == WholePart(last.hours.text)
DecimalMinutes ==
    (60 * DigitsValue(FractionDigits(last.hours.text)))
        \div Pow10(Len(FractionDigits(last.hours.text)))

\* C34: for hours h that are zero or above format_duration gives PT<H>H<M>M
\* with H = floor(h) and M = floor((h - H) * 60), and leaves the M part out
\* exactly when M = 0.
C34_TruncatedMinutes ==
    (Formatted /\ NonNegativeHours)
    => last.result = IF DecimalMinutes = 0
                     THEN <<"PT", DecimalHours, "H">>
                     ELSE <<"PT", DecimalHours, "H", DecimalMinutes, "M">>

\* C35: on an approve decision the project lookup comes before the POST:
\* no call waits for the answer of the project lookup with its POST
\* already issued.
C35_LookupBeforePost ==
    \A c \in Calls : call[c].pc = "get_projects" => ~call[c].posted

\* C36: when the POST of create_task succeeded, create_task returns a
\* result with a link and raises nothing.
C36_CreatedIsReturned ==
    (last.op = "create_task" /\ last.created)
    => ~last.raised /\ last.links # {}

\* C37: while a submission is registered its dict keeps the fields written
\* at Submit, whatever step of a decision is taken.
C37_DecisionLeavesEntryAlone ==
    [][ \A id \in DOMAIN pending_tasks \cap DOMAIN pending_tasks' :
           heap'[pending_tasks'[id]] = heap[pending_tasks[id]] ]_vars

\* C38: every registered submission had its message with the approve and
\* reject buttons delivered to the approver.
C38_RegisteredWasNotified ==
    DOMAIN pending_tasks \subseteq approval_msgs

\* C39: the timestamp of the project cache never decreases, for any
\* interleaving of get_projects calls.
C39_TimestampMonotone ==
    [][cache_timestamp' >= cache_timestamp]_vars

ProjectListed ==
    \E i \in 1..Len(projects_cache) : projects_cache[i] = last.task_data.project_id

\* C40: the result of a create_task that succeeded has exactly one link,
\* ui_link when the project of the task is in the list of active projects
\* and api_link otherwise.
C40_ExactlyOneLink ==
    (last.op = "create_task" /\ ~last.raised)
    => last.links = IF ProjectListed THEN {"ui_link"} ELSE {"api_link"}

\* C40 witness: a task was created for a project that is in the list, and
\* its result has the ui_link alone.
C40_Witness ==
    /\ last.op = "create_task" /\ ~last.raised /\ last.created
    /\ ProjectListed
    /\ last.links = {"ui_link"}

====
